---- MODULE Spec2Model ----
(***************************************************************************)
(* Model of crates/cargo-contract/src/cmd/info.rs: one invocation of       *)
(* InfoCommand::run, at the granularity of its await points, together with *)
(* the two renderers and the text they write.                              *)
(***************************************************************************)
EXTENDS Integers, Sequences, FiniteSets, TLC

\* ---------------------------------------------------------------- bounds
MaxTrieLen == 2
MaxStorageItems == 2
MaxDeposit == 1

\* ------------------------------------------------------- input universes
Addresses == {"5Alice", "5Bob"}
Bytes == {15, 171}
CodeHashes == {"0x11", "0x22"}

RECURSIVE SeqsUpTo(_, _)
SeqsUpTo(S, n) ==
    IF n = 0 THEN {<<>>}
    ELSE LET shorter == SeqsUpTo(S, n - 1)
         IN  shorter \cup {Append(s, b) : s \in {t \in shorter : Len(t) = n - 1}, b \in S}

None == [some |-> FALSE]
Some(v) == [some |-> TRUE, val |-> v]

\* ContractInfo (runtime type pallet_contracts::storage::ContractInfo), the
\* four fields the command reads.
ContractInfo ==
    [trie_id : SeqsUpTo(Bytes, MaxTrieLen),
     code_hash : CodeHashes,
     storage_items : 0..MaxStorageItems,
     storage_item_deposit : 0..MaxDeposit]

\* The ContractInfoOf maps an invocation may meet: any set of the addresses
\* deployed, the deployed contracts carrying one ContractInfo value.
Storages ==
    {[a \in Addresses |-> IF a \in deployed THEN Some(i) ELSE None] :
        deployed \in SUBSET Addresses, i \in ContractInfo}

\* ------------------------------------------------------------------ text
\* Text is a sequence of tokens; a token has a kind and its characters.
Tok(k, v) == [k |-> k, v |-> v]
P(s) == Tok("p", <<s>>)
Ws(s) == Tok("ws", <<s>>)

HexChars == <<"0", "1", "2", "3", "4", "5", "6", "7",
              "8", "9", "a", "b", "c", "d", "e", "f">>

\* hex::encode: two lower-case digits per byte, high nibble first.
RECURSIVE hex_encode(_)
hex_encode(bytes) ==
    IF bytes = <<>> THEN <<>>
    ELSE <<HexChars[(Head(bytes) \div 16) + 1], HexChars[(Head(bytes) % 16) + 1]>>
         \o hex_encode(Tail(bytes))

DecChars == <<"0", "1", "2", "3", "4", "5", "6", "7", "8", "9">>

\* Decimal rendering of an unsigned integer ({:?} of u32 / u128, and the
\* JSON number serde_json writes for a u32).
RECURSIVE ToDecimal(_)
ToDecimal(n) ==
    IF n < 10 THEN <<DecChars[n + 1]>>
    ELSE ToDecimal(n \div 10) \o <<DecChars[(n % 10) + 1]>>

\* {:?} of sp_core::H256 and its serde form: the 0x-prefixed hex string; a
\* code hash is carried as that string.
DebugH256(h) == <<h>>

\* name_value_println!(name, value): one output line made of the label and
\* the value text.
name_value_println(name, value) == [name |-> name, value |-> value]

LineText(line) == <<Tok("txt", <<line.name>>), Ws(" ")>> \o line.value

RECURSIVE OutText(_)
OutText(lines) ==
    IF lines = <<>> THEN <<>>
    ELSE LineText(Head(lines)) \o <<Ws("\n")>> \o OutText(Tail(lines))

\* --------------------------------------------------------------- renderers
\* Variant: the code hash and storage items lines exchanged.
basic_display_items_first(info) ==
    LET convert_trie_id == hex_encode(info.trie_id)
    IN  <<name_value_println("TrieId:", <<Tok("txt", convert_trie_id)>>),
          name_value_println("Storage items:", <<Tok("txt", ToDecimal(info.storage_items))>>),
          name_value_println("Code hash:", <<Tok("txt", DebugH256(info.code_hash))>>),
          name_value_println("Storage deposit:",
                             <<Tok("txt", ToDecimal(info.storage_item_deposit))>>)>>

basic_display_format_contract_info(info) ==
    LET convert_trie_id == hex_encode(info.trie_id)
    IN  <<name_value_println("TrieId:", <<Tok("txt", convert_trie_id)>>),
          name_value_println("Code hash:", <<Tok("txt", DebugH256(info.code_hash))>>),
          name_value_println("Storage items:", <<Tok("txt", ToDecimal(info.storage_items))>>),
          name_value_println("Storage deposit:",
                             <<Tok("txt", ToDecimal(info.storage_item_deposit))>>)>>

\* struct InfoToJson as built by serialize_json: three fields, no deposit.
InfoToJson(info) ==
    <<[key |-> "trie_id", val |-> Tok("str", hex_encode(info.trie_id))],
      [key |-> "code_hash", val |-> Tok("str", DebugH256(info.code_hash))],
      [key |-> "storage_items", val |-> Tok("num", ToDecimal(info.storage_items))]>>

RECURSIVE PrettyMembers(_)
PrettyMembers(fields) ==
    IF fields = <<>> THEN <<>>
    ELSE <<Ws("\n"), Ws("  "), Tok("str", <<Head(fields).key>>), P(":"), Ws(" "),
           Head(fields).val>>
         \o (IF Len(fields) > 1 THEN <<P(",")>> ELSE <<>>)
         \o PrettyMembers(Tail(fields))

\* serde_json::to_string_pretty: Ok(text) or Err(error).
to_string_pretty(fields, fails) ==
    IF fails THEN [ok |-> FALSE, err |-> <<"serde_json::Error">>]
    ELSE [ok |-> TRUE,
          val |-> <<P("{")>> \o PrettyMembers(fields) \o <<Ws("\n"), P("}")>>]

\* Characters of a text as {:?} of a String shows them: quotes and newlines
\* escaped.
RECURSIVE EscapeDebug(_)
EscapeDebug(text) ==
    IF text = <<>> THEN <<>>
    ELSE LET t == Head(text)
             cs == IF t.k = "str" THEN <<"\\\"">> \o t.v \o <<"\\\"">>
                   ELSE IF t = Ws("\n") THEN <<"\\n">>
                   ELSE t.v
         IN  cs \o EscapeDebug(Tail(text))

\* {:?} of Result<String, serde_json::Error>.
DebugResult(r) ==
    IF r.ok THEN <<P("Ok("), Tok("dbg", <<"\"">> \o EscapeDebug(r.val) \o <<"\"">>), P(")")>>
    ELSE <<P("Err("), Tok("dbg", r.err), P(")")>>

serialize_json(info, fails) ==
    LET convert_trie_id == hex_encode(info.trie_id)
        info_to_json == InfoToJson(info)
    IN  <<name_value_println("Test output json",
                             DebugResult(to_string_pretty(info_to_json, fails)))>>

\* ------------------------------------------------------- JSON recognition
StripWs(text) == SelectSeq(text, LAMBDA t : t.k # "ws")

\* A flat JSON object: { "k" : v , "k" : v ... } with string or number values.
IsJsonObject(text) ==
    LET ts == StripWs(text)
        n == Len(ts)
    IN  /\ n >= 2
        /\ ts[1] = P("{")
        /\ ts[n] = P("}")
        /\ \/ n = 2
           \/ /\ (n - 2) % 4 = 3
              /\ \A i \in 2..(n - 1) :
                    LET j == (i - 1) % 4
                    IN  /\ j = 1 => ts[i].k = "str"
                        /\ j = 2 => ts[i] = P(":")
                        /\ j = 3 => ts[i].k \in {"str", "num"}
                        /\ j = 0 => ts[i] = P(",")

JsonKeys(text) ==
    LET ts == StripWs(text)
    IN  {ts[i].v[1] : i \in {j \in 2..(Len(ts) - 1) : (j - 1) % 4 = 1}}

\* ------------------------------------------------------------------ state
VARIABLES
    contract,        \* self.contract
    output_json,     \* self.output_json
    storage,         \* the node's ContractInfoOf map
    pc,              \* position of the invocation
    info_result,     \* what fetch_contract_info returned
    result,          \* what run returned
    out,             \* lines written to standard output
    rendered,        \* renderers invoked, in order
    connects,        \* OnlineClient::from_url calls
    fetchCalls,      \* fetch_contract_info calls
    atCalls,         \* storage().at(None) requests
    storageFetches,  \* storage fetch requests
    inflight,        \* network operations awaiting completion
    completed,       \* outcomes of the awaits so far, in order
    encoded          \* what serde_json::to_string_pretty returned

vars == <<contract, output_json, storage, pc, info_result, result, out, rendered,
          connects, fetchCalls, atCalls, storageFetches, inflight, completed, encoded>>

NoResult == [done |-> FALSE]
Ok == [done |-> TRUE, ok |-> TRUE]
Err(kind, msg) == [done |-> TRUE, ok |-> FALSE, kind |-> kind, msg |-> msg]

\* Variant: the message without the account id.
AbsenceMessageNoAccount(c) == <<"No contract information was found">>

\* anyhow!("No contract information was found for account id {}", self.contract)
AbsenceMessage(c) == <<"No contract information was found for account id ", c>>

Init ==
    /\ contract \in Addresses
    /\ output_json \in BOOLEAN
    /\ storage \in Storages
    /\ pc = "Idle"
    /\ info_result = None
    /\ result = NoResult
    /\ out = <<>>
    /\ rendered = <<>>
    /\ connects = 0
    /\ fetchCalls = 0
    /\ atCalls = 0
    /\ storageFetches = 0
    /\ inflight = {}
    /\ completed = <<>>
    /\ encoded = None

Outcome(op, ok) == [op |-> op, ok |-> ok]
Happened(op, ok) == \E i \in 1..Len(completed) : completed[i] = Outcome(op, ok)

inputs == <<contract, output_json, storage>>
counters == <<connects, fetchCalls, atCalls, storageFetches>>

\* run: block_on starts the task; OnlineClient::from_url(url) is awaited.
Start ==
    /\ pc = "Idle"
    /\ pc' = "Connecting"
    /\ connects' = connects + 1
    /\ inflight' = inflight \cup {"connect"}
    /\ UNCHANGED <<inputs, info_result, result, out, rendered,
                   fetchCalls, atCalls, storageFetches, completed, encoded>>

\* from_url resolves to a client; fetch_contract_info is called and awaits
\* client.storage().at(None).
ConnectOk ==
    /\ pc = "Connecting"
    /\ pc' = "Fetching"
    /\ fetchCalls' = fetchCalls + 1
    /\ atCalls' = atCalls + 1
    /\ inflight' = (inflight \ {"connect"}) \cup {"at"}
    /\ UNCHANGED <<inputs, info_result, result, out, rendered, connects, storageFetches>>
    /\ completed' = Append(completed, Outcome("connect", TRUE))
    /\ UNCHANGED encoded

\* Variant: the connection error is dropped and the fetch goes ahead.
ConnectErrIgnored ==
    /\ pc = "Connecting"
    /\ pc' = "Fetching"
    /\ fetchCalls' = fetchCalls + 1
    /\ atCalls' = atCalls + 1
    /\ inflight' = (inflight \ {"connect"}) \cup {"at"}
    /\ completed' = Append(completed, Outcome("connect", FALSE))
    /\ UNCHANGED <<inputs, info_result, result, out, rendered, connects, storageFetches,
                   encoded>>

\* from_url fails: `?` returns the error from run.
ConnectErr ==
    /\ pc = "Connecting"
    /\ pc' = "Failed"
    /\ result' = Err("Connection", <<"subxt::Error">>)
    /\ inflight' = inflight \ {"connect"}
    /\ UNCHANGED <<inputs, info_result, out, rendered, counters>>
    /\ completed' = Append(completed, Outcome("connect", FALSE))
    /\ UNCHANGED encoded

\* at(None) resolves; .fetch(&info_contract_call) is awaited.
AtOk ==
    /\ pc = "Fetching"
    /\ "at" \in inflight
    /\ storageFetches' = storageFetches + 1
    /\ inflight' = (inflight \ {"at"}) \cup {"fetch"}
    /\ UNCHANGED <<inputs, pc, info_result, result, out, rendered,
                   connects, fetchCalls, atCalls>>
    /\ completed' = Append(completed, Outcome("at", TRUE))
    /\ UNCHANGED encoded

\* Variant: a failed at(None) is requested again.
AtErrRetries ==
    /\ pc = "Fetching"
    /\ "at" \in inflight
    /\ atCalls < 2
    /\ atCalls' = atCalls + 1
    /\ completed' = Append(completed, Outcome("at", FALSE))
    /\ UNCHANGED <<inputs, pc, info_result, result, out, rendered, connects, fetchCalls,
                   storageFetches, inflight, encoded>>

\* at(None) fails: `?` in fetch_contract_info, then `?` in run.
AtErr ==
    /\ pc = "Fetching"
    /\ "at" \in inflight
    /\ pc' = "Failed"
    /\ result' = Err("Fetch", <<"subxt::Error">>)
    /\ inflight' = inflight \ {"at"}
    /\ UNCHANGED <<inputs, info_result, out, rendered, counters>>
    /\ completed' = Append(completed, Outcome("at", FALSE))
    /\ UNCHANGED encoded

\* Variant: the None arm returns Ok(()) instead of the absence error.
FetchOkAbsentSucceeds ==
    /\ pc = "Fetching"
    /\ "fetch" \in inflight
    /\ info_result' = storage[contract]
    /\ inflight' = inflight \ {"fetch"}
    /\ IF storage[contract].some
       THEN pc' = "Present" /\ UNCHANGED result
       ELSE pc' = "Done" /\ result' = Ok
    /\ completed' = Append(completed, Outcome("fetch", TRUE))
    /\ UNCHANGED <<inputs, out, rendered, counters, encoded>>

\* fetch resolves with the stored value; run matches on it.  None returns
\* the absence error.
FetchOk ==
    /\ pc = "Fetching"
    /\ "fetch" \in inflight
    /\ info_result' = storage[contract]
    /\ inflight' = inflight \ {"fetch"}
    /\ IF storage[contract].some
       THEN pc' = "Present" /\ UNCHANGED result
       ELSE pc' = "Absent" /\ result' = Err("Absence", AbsenceMessage(contract))
    /\ UNCHANGED <<inputs, out, rendered, counters>>
    /\ completed' = Append(completed, Outcome("fetch", TRUE))
    /\ UNCHANGED encoded

\* Variant: a failed fetch starts the invocation over from the connection.
FetchErrReconnects ==
    /\ pc = "Fetching"
    /\ "fetch" \in inflight
    /\ connects < 2
    /\ pc' = "Connecting"
    /\ connects' = connects + 1
    /\ inflight' = (inflight \ {"fetch"}) \cup {"connect"}
    /\ completed' = Append(completed, Outcome("fetch", FALSE))
    /\ UNCHANGED <<inputs, info_result, result, out, rendered, fetchCalls, atCalls,
                   storageFetches, encoded>>

\* fetch fails (transport or decoding).
FetchErr ==
    /\ pc = "Fetching"
    /\ "fetch" \in inflight
    /\ pc' = "Failed"
    /\ result' = Err("Fetch", <<"subxt::Error">>)
    /\ inflight' = inflight \ {"fetch"}
    /\ UNCHANGED <<inputs, info_result, out, rendered, counters>>
    /\ completed' = Append(completed, Outcome("fetch", FALSE))
    /\ UNCHANGED encoded

\* The output type selected from the flag.
OutputTypeOf(flag) == IF flag THEN "Json" ELSE "HumanReadable"

\* The Some arm of run: which renderer the selected output type reaches.
RendererFor(output_type) ==
    IF output_type = "Json" THEN "basic_display_format_contract_info"
    ELSE "serialize_json"

\* Variant: the human-readable renderer also runs unconditionally before
\* the selected one.
RenderBoth ==
    /\ pc = "Present"
    /\ LET output_type == OutputTypeOf(output_json)
           renderer == RendererFor(output_type)
           first == basic_display_format_contract_info(info_result.val)
       IN  /\ rendered' = rendered \o <<"basic_display_format_contract_info", renderer>>
           /\ IF renderer = "basic_display_format_contract_info"
              THEN /\ out' = out \o first \o basic_display_format_contract_info(info_result.val)
                   /\ UNCHANGED encoded
              ELSE \E fails \in BOOLEAN :
                      /\ out' = out \o first \o serialize_json(info_result.val, fails)
                      /\ encoded' = Some(to_string_pretty(InfoToJson(info_result.val), fails))
    /\ pc' = "Rendering"
    /\ UNCHANGED <<inputs, info_result, result, counters, inflight, completed>>

Render ==
    /\ pc = "Present"
    /\ LET output_type == OutputTypeOf(output_json)
           renderer == RendererFor(output_type)
       IN  /\ rendered' = Append(rendered, renderer)
           /\ IF renderer = "basic_display_format_contract_info"
              THEN /\ out' = out \o basic_display_format_contract_info(info_result.val)
                   /\ UNCHANGED encoded
              ELSE \E fails \in BOOLEAN :
                      /\ out' = out \o serialize_json(info_result.val, fails)
                      /\ encoded' = Some(to_string_pretty(InfoToJson(info_result.val), fails))
    /\ pc' = "Rendering"
    /\ UNCHANGED <<inputs, info_result, result, counters, inflight, completed>>

\* Result::<(), ErrorVariant>::Ok(())
Return ==
    /\ pc = "Rendering"
    /\ pc' = "Done"
    /\ result' = Ok
    /\ UNCHANGED <<inputs, info_result, out, rendered, counters, inflight,
                   completed, encoded>>

Next ==
    \/ Start
    \/ ConnectOk
    \/ ConnectErr
    \/ AtOk
    \/ AtErr
    \/ FetchOk
    \/ FetchErr
    \/ Render
    \/ Return

Spec == Init /\ [][Next]_vars

\* block_on drives the task until it returns; every await completes or fails.
FairSpec == Spec /\ WF_vars(Next)

\* ------------------------------------------------------ claim vocabulary
Terminal == pc \in {"Done", "Absent", "Failed"}
Failure == result.done /\ ~result.ok
NetworkFailed == Happened("connect", FALSE) \/ Happened("at", FALSE) \/ Happened("fetch", FALSE)
Invoked(r) == \E i \in 1..Len(rendered) : rendered[i] = r
Mentions(msg, c) == \E i \in 1..Len(msg) : msg[i] = c

HexValue ==
    "0" :> 0 @@ "1" :> 1 @@ "2" :> 2 @@ "3" :> 3 @@ "4" :> 4 @@ "5" :> 5 @@
    "6" :> 6 @@ "7" :> 7 @@ "8" :> 8 @@ "9" :> 9 @@ "a" :> 10 @@ "b" :> 11 @@
    "c" :> 12 @@ "d" :> 13 @@ "e" :> 14 @@ "f" :> 15

\* The byte sequence a string of hex digits stands for.
RECURSIVE HexDecode(_)
HexDecode(cs) ==
    IF Len(cs) < 2 THEN <<>>
    ELSE <<HexValue[cs[1]] * 16 + HexValue[cs[2]]>> \o HexDecode(SubSeq(cs, 3, Len(cs)))

Labels(lines) == [i \in 1..Len(lines) |-> lines[i].name]

\* C1: with a present record, the output-json flag set means serialize_json
\* is the renderer invoked and the human-readable one is not; the flag unset
\* means basic_display_format_contract_info is invoked and serialize_json is
\* not.
C1_RendererMatchesFlag ==
    rendered # <<>> =>
        /\ output_json =>
              Invoked("serialize_json") /\ ~Invoked("basic_display_format_contract_info")
        /\ ~output_json =>
              Invoked("basic_display_format_contract_info") /\ ~Invoked("serialize_json")

\* C2: when the connection and the storage query succeed for an address with
\* no deployed contract, fetch_contract_info returned None and run failed
\* with the absence error, whose message contains the queried address; the
\* error is neither a connection error nor a fetch error.
C2_AbsenceReported ==
    (Happened("fetch", TRUE) /\ ~storage[contract].some) =>
        /\ info_result = None
        /\ Failure
        /\ result.kind = "Absence"
        /\ Mentions(result.msg, contract)
        /\ result.kind \notin {"Connection", "Fetch"}

C2_Witness ==
    /\ pc = "Absent"
    /\ Happened("connect", TRUE)
    /\ Happened("fetch", TRUE)
    /\ ~storage[contract].some
    /\ result.done

\* C3: when establishing the connection fails, run fails with the connection
\* error, fetch_contract_info and its requests are never started, and nothing
\* is written to the output.
C3_ConnectionFailureAborts ==
    Happened("connect", FALSE) =>
        /\ Failure
        /\ result.kind = "Connection"
        /\ fetchCalls = 0
        /\ atCalls = 0
        /\ storageFetches = 0
        /\ inflight = {}
        /\ rendered = <<>>
        /\ out = <<>>

C3_Witness == pc = "Failed" /\ Happened("connect", FALSE) /\ connects = 1

\* C4: the text serialize_json writes is a valid JSON document whose fields
\* are exactly trie_id, code_hash and storage_items, with no storage-deposit
\* field (stated for the case where the encoder returned Ok).
C4_JsonOutputIsJson ==
    (Invoked("serialize_json") /\ encoded.some /\ encoded.val.ok) =>
        /\ IsJsonObject(OutText(out))
        /\ JsonKeys(OutText(out)) = {"trie_id", "code_hash", "storage_items"}

\* The projection serialize_json encodes, taken by itself, is a JSON object
\* with exactly the three fields: what C4 fails on is the text written.
EncodedIsJson ==
    (encoded.some /\ encoded.val.ok) =>
        /\ IsJsonObject(encoded.val.val)
        /\ JsonKeys(encoded.val.val) = {"trie_id", "code_hash", "storage_items"}

\* C5: basic_display_format_contract_info writes exactly four labelled lines
\* in the order TrieId, Code hash, Storage items, Storage deposit, and the
\* TrieId value is the hex encoding of the trie identifier.
C5_HumanReadableLines ==
    Invoked("basic_display_format_contract_info") =>
        /\ Len(out) = 4
        /\ Labels(out) = <<"TrieId:", "Code hash:", "Storage items:", "Storage deposit:">>
        /\ Len(out[1].value) = 1
        /\ Len(out[1].value[1].v) = 2 * Len(info_result.val.trie_id)
        /\ HexDecode(out[1].value[1].v) = info_result.val.trie_id
        /\ out[2].value = <<Tok("txt", <<info_result.val.code_hash>>)>>

C5_Witness ==
    /\ Invoked("basic_display_format_contract_info")
    /\ info_result.some
    /\ Len(info_result.val.trie_id) = MaxTrieLen
    /\ info_result.val.trie_id[1] = 15
    /\ Len(out) = 4

\* C6: when the JSON encoding fails, the invocation fails with the
\* serialization error and nothing is written to the output.
C6_SerializationErrorSurfaced ==
    (encoded.some /\ ~encoded.val.ok) =>
        /\ out = <<>>
        /\ pc # "Done"
        /\ result.done => ~result.ok

\* C7: run returns success exactly when a record was found and its rendering
\* was written; a connection error, a fetch error and an absent record each
\* make it return a failure.
C7_SuccessIffRendered ==
    /\ Terminal => result.done
    /\ result.done =>
          (result.ok <=> (info_result.some /\ Len(rendered) = 1 /\ out # <<>>))
    /\ (Terminal /\ NetworkFailed) => Failure
    /\ (Terminal /\ Happened("fetch", TRUE) /\ ~storage[contract].some) => Failure
    /\ Failure => result.kind \in {"Connection", "Fetch", "Absence"}

C7_Witness == pc = "Done" /\ result = Ok /\ info_result.some /\ out # <<>>

Allowed(from, to) ==
    \/ from = to
    \/ from = "Idle" /\ to = "Connecting"
    \/ from = "Connecting" /\ to \in {"Fetching", "Failed"}
    \/ from = "Fetching" /\ to \in {"Present", "Absent", "Failed"}
    \/ from = "Present" /\ to = "Rendering"
    \/ from = "Rendering" /\ to = "Done"

TerminalOutcome ==
    \/ pc = "Done" /\ result = Ok /\ out # <<>>
    \/ pc \in {"Absent", "Failed"} /\ Failure

\* C8: an invocation moves Idle -> Connecting -> Fetching -> (Absent |
\* Present -> Rendering -> Done) and never back, and, every await completing
\* or failing, it eventually ends in success with output written or in a
\* failure with its error returned.
C8_ForwardAndTerminates ==
    /\ [][Allowed(pc, pc')]_vars
    /\ <>TerminalOutcome
    /\ [][TerminalOutcome => TerminalOutcome']_vars

C8_Witness == pc = "Done" /\ result = Ok /\ Len(completed) = 3

\* C9 as stated: the connection is established at most once, the storage
\* query is issued at most once and exactly once when the connection
\* succeeds, nothing is attempted again after a failure, and at most one
\* network operation is in flight.
C9_QueryOnceWhenConnected ==
    /\ connects <= 1
    /\ storageFetches <= 1
    /\ (Terminal /\ Happened("connect", TRUE)) => storageFetches = 1
    /\ Cardinality(inflight) <= 1
    /\ NetworkFailed => inflight = {}

\* C9 amended: the connection is established at most once; fetch_contract_info
\* is called at most once, exactly once when the connection succeeds; the
\* storage fetch is issued at most once, exactly once when the connection
\* and the at(None) lookup both succeed; after a failure no operation is
\* attempted again; at most one network operation is in flight.
C9_AtMostOnce ==
    /\ [](/\ connects <= 1
          /\ fetchCalls <= 1
          /\ atCalls <= 1
          /\ storageFetches <= 1
          /\ Happened("connect", TRUE) => (fetchCalls = 1 /\ atCalls = 1)
          /\ ~Happened("connect", TRUE) => (fetchCalls = 0 /\ storageFetches = 0)
          /\ Happened("at", TRUE) <=> storageFetches = 1
          /\ Cardinality(inflight) <= 1
          /\ NetworkFailed => inflight = {})
    /\ [][NetworkFailed => (counters' = counters /\ inflight' = inflight)]_vars

C9_Witness ==
    /\ pc = "Failed"
    /\ Happened("connect", TRUE)
    /\ Happened("at", TRUE)
    /\ Happened("fetch", FALSE)
    /\ storageFetches = 1

\* C10: a renderer runs and output is written only after the fetch returned
\* a present record; a failed fetch or an absent record leaves no renderer
\* invoked and nothing written; a present record gets exactly one renderer,
\* invoked once.
C10_RenderOnlyPresent ==
    /\ (rendered # <<>> \/ out # <<>>) =>
          /\ Happened("fetch", TRUE)
          /\ info_result.some
          /\ storage[contract].some
    /\ (NetworkFailed \/ pc = "Absent") => (rendered = <<>> /\ out = <<>>)
    /\ Len(rendered) <= 1
    /\ out # <<>> => Len(rendered) = 1
    /\ pc \in {"Rendering", "Done"} => (Len(rendered) = 1 /\ out # <<>>)

C10_Witness == pc = "Done" /\ Len(rendered) = 1 /\ Happened("fetch", TRUE)

====
